---- MODULE Spec2Model ----
(***************************************************************************)
(* Model of script.tvmaze/libs/scrobbling_service.py: the authorization    *)
(* flow, the TVmaze ID resolver, the episode batch formatter and the three *)
(* sync drivers of the TVmaze scrobbler addon.                             *)
(*                                                                         *)
(* Python values are represented as follows.  An optional value is None    *)
(* (the empty tuple) or Some(v) (a one-element tuple).  The text of a      *)
(* 'tvmaze' unique ID is a sequence of decimal digits, so that int() and   *)
(* str() are real conversions; the other identifiers are opaque strings.   *)
(* A raised exception of an external call is the None response.            *)
(***************************************************************************)
EXTENDS Integers, Sequences, FiniteSets, TLC

\* ---------------------------------------------------------------- bounds
NumShows == 2       \* TV shows in the medialibrary
EpsPerShow == 2     \* episodes of each show in the medialibrary
MaxRecent == 3      \* longest list returned by get_recent_episodes
MaxLen == 3         \* longest list handed to the formatter on its own
MaxSeason == 1      \* seasons 0..MaxSeason
MaxTime == 1        \* the clock runs over 0..MaxTime
MaxEmailLen == 5    \* longest text typed into the keyboard

\* ---------------------------------------------------------- basic values
None == <<>>
Some(v) == <<v>>

Shows == 1..NumShows

\* IDs of shows on TVmaze that a lookup can return
RemoteIds == {7, 12}

Last(s) == s[Len(s)]

\* int(text) for a text of decimal digits
RECURSIVE int(_)
int(text) ==
    IF Len(text) = 0 THEN 0
    ELSE 10 * int(SubSeq(text, 1, Len(text) - 1)) + Last(text)

\* str(number) for a non-negative number
RECURSIVE str(_)
str(number) ==
    IF number < 10 THEN <<number>>
    ELSE Append(str(number \div 10), number % 10)

\* ------------------------------------------------------ program constants
SUPPORTED_IDS == <<"tvmaze", "tvdb", "imdb">>

StatusType == [WATCHED |-> 0, ACQUIRED |-> 1, SKIPPED |-> 2]

UniqueId(show_id, provider) == [show_id |-> show_id, provider |-> provider]

\* ------------------------------------------------------------ medialibrary
\* The uniqueid dict of a show as the JSON-RPC API returns it.  'tmdb' is a
\* provider the addon does not support; d[p] = None stands for a missing key.
UniqueIdDicts ==
    [tvmaze : {None, Some(<<7>>)},
     tvdb   : {None, Some("321")},
     imdb   : {None, Some("tt999")},
     tmdb   : {Some("55")}]

\* The episodes of the medialibrary: episode k of show s.  Every show has a
\* special (season 0) and regular episodes, watched and unwatched.
LibraryEpisode(s, k) ==
    [episodeid |-> (s - 1) * EpsPerShow + k,
     tvshowid  |-> s,
     season    |-> (s + k) % (MaxSeason + 1),
     episode   |-> k,
     playcount |-> (2 * s + k) % 3]

EpisodeIds == 1..(NumShows * EpsPerShow)

EpisodeById(e) ==
    LibraryEpisode(((e - 1) \div EpsPerShow) + 1, ((e - 1) % EpsPerShow) + 1)

\* all sequences of length 0..m over S
SeqsUpTo(S, m) == UNION {[1..k -> S] : k \in 0..m}

\* all sequences of length 0..m of distinct elements of S
DistinctSeqs(S, m) ==
    {s \in SeqsUpTo(S, m) : \A i, j \in 1..Len(s) : i # j => s[i] # s[j]}

\* non-decreasing readings of the clock, one per element, starting at t
Clocks(t, k) ==
    {c \in [1..k -> t..MaxTime] : \A i \in 1..(k - 1) : c[i] <= c[i + 1]}

ClockAfter(t, clock) == IF Len(clock) = 0 THEN t ELSE Last(clock)

\* ------------------------------------------------------------------ state
VARIABLES
    uniqueid,            \* medialibrary: tvshowid -> uniqueid dict
    settings,            \* addon settings: username, apikey
    now,                 \* int(time.time())
    pc,                  \* position of the running entry point
    lookups,             \* calls of get_show_info_by_external_id
    writes,              \* calls of set_show_uniqueid
    sent,                \* calls of send_episodes
    notifications,       \* calls of DIALOG.notification
    fetches,             \* calls of the medialibrary getters
    tokens,              \* calls of start_authorization
    kodi_episode_list,   \* formatter: argument
    episodes_for_tvmaze, \* formatter: return value
    call,                \* resolver: the latest call of _get_tvmaze_id
    prev,                \* resolver: the call before the latest
    tv_shows,            \* update_all_episodes: get_tvshows()
    n,                   \* update_all_episodes: enumerate index
    progress,            \* update_all_episodes: percent of dialog.update
    outcome,             \* update_all_episodes: what happened to each show
    errors,              \* the drivers' errors flag
    recent_episodes,     \* update_recent_episodes: get_recent_episodes()
    pos,                 \* update_recent_episodes: episodes consumed
    id_mapping,          \* update_recent_episodes: tvshowid -> tvmaze_id
    episode_mapping,     \* update_recent_episodes: tvmaze_id -> episodes
    pending,             \* update_recent_episodes: keys still to iterate
    resolutions,         \* update_recent_episodes: _get_tvmaze_id calls
    auth,                \* authorize_addon: what the user and TVmaze did
    saves,               \* authorize_addon: calls of ADDON.setSettingString
    settings0,           \* the settings when the entry point started
    actions              \* get_menu_actions: return value

vars == <<uniqueid, settings, now, pc, lookups, writes, sent, notifications,
          fetches, tokens, kodi_episode_list, episodes_for_tvmaze, call, prev,
          tv_shows, n, progress, outcome, errors, recent_episodes, pos,
          id_mapping, episode_mapping, pending, resolutions, auth, saves,
          settings0, actions>>

library == <<uniqueid>>
effects == <<lookups, writes, sent, notifications, fetches, tokens>>
formatterVars == <<kodi_episode_list, episodes_for_tvmaze>>
resolverVars == <<call, prev>>
allVars == <<tv_shows, n, progress, outcome>>
recentVars == <<recent_episodes, pos, id_mapping, episode_mapping, pending,
                resolutions>>
authVars == <<auth, saves, settings0>>

\* --------------------------------------------------------------- formatter
\* the formatter's loop without the test of the season
RECURSIVE PrepareLoopNoSeasonTest(_, _, _, _)
PrepareLoopNoSeasonTest(kodi_list, clock, i, acc) ==
    IF i > Len(kodi_list) THEN acc
    ELSE LET episode == kodi_list[i]
         IN PrepareLoopNoSeasonTest(kodi_list, clock, i + 1, Append(acc,
                    [season    |-> episode.season,
                     episode   |-> episode.episode,
                     marked_at |-> clock[i],
                     type      |-> IF episode.playcount # 0
                                   THEN StatusType.WATCHED
                                   ELSE StatusType.ACQUIRED]))

\* _prepare_episode_list; clock[i] is int(time.time()) at the i-th episode
RECURSIVE PrepareLoop(_, _, _, _)
PrepareLoop(kodi_list, clock, i, acc) ==
    IF i > Len(kodi_list) THEN acc
    ELSE LET episode == kodi_list[i]
         IN IF episode.season # 0
            THEN PrepareLoop(kodi_list, clock, i + 1, Append(acc,
                    [season    |-> episode.season,
                     episode   |-> episode.episode,
                     marked_at |-> clock[i],
                     type      |-> IF episode.playcount # 0
                                   THEN StatusType.WATCHED
                                   ELSE StatusType.ACQUIRED]))
            ELSE PrepareLoop(kodi_list, clock, i + 1, acc)

_prepare_episode_list(kodi_list, clock) == PrepareLoop(kodi_list, clock, 1, <<>>)

\* ---------------------------------------------------------------- resolver
\* the scan with 'tvdb' tried before 'tvmaze'
RECURSIVE ScanTvdbFirst(_, _)
ScanTvdbFirst(uniqueid_dict, i) ==
    IF i > Len(SUPPORTED_IDS) THEN None
    ELSE LET provider == <<"tvdb", "tvmaze", "imdb">>[i]
             show_id == uniqueid_dict[provider]
         IN IF show_id # None
            THEN Some(UniqueId(show_id[1],
                               IF provider = "tvdb" THEN "thetvdb" ELSE provider))
            ELSE ScanTvdbFirst(uniqueid_dict, i + 1)

\* the scan without the rewrite of 'tvdb' to 'thetvdb'
RECURSIVE ScanNoRewrite(_, _)
ScanNoRewrite(uniqueid_dict, i) ==
    IF i > Len(SUPPORTED_IDS) THEN None
    ELSE LET provider == SUPPORTED_IDS[i]
             show_id == uniqueid_dict[provider]
         IN IF show_id # None
            THEN Some(UniqueId(show_id[1], provider))
            ELSE ScanNoRewrite(uniqueid_dict, i + 1)

\* the loop of _get_unique_id over SUPPORTED_IDS from position i
RECURSIVE ScanSupportedIds(_, _)
ScanSupportedIds(uniqueid_dict, i) ==
    IF i > Len(SUPPORTED_IDS) THEN None
    ELSE LET provider == SUPPORTED_IDS[i]
             show_id == uniqueid_dict[provider]
         IN IF show_id # None
            THEN Some(UniqueId(show_id[1],
                               IF provider = "tvdb" THEN "thetvdb" ELSE provider))
            ELSE ScanSupportedIds(uniqueid_dict, i + 1)

_get_unique_id(uniqueid_dict) == ScanSupportedIds(uniqueid_dict, 1)

\* what get_show_info_by_external_id can do: raise GetInfoError (None) or
\* return a show_info with an 'id'
LookupResponses == {None} \cup {Some(id) : id \in RemoteIds}

\* the resolver without the write-through of a looked-up ID
GetTvmazeIdNoWrite(kodi_show_info, response) ==
    LET unique_id == _get_unique_id(kodi_show_info.uniqueid)
        nocalls == [lookups |-> <<>>, writes |-> <<>>]
    IN IF unique_id = None
       THEN [ret |-> None] @@ nocalls
       ELSE IF unique_id[1].provider = "tvmaze"
       THEN [ret |-> Some(int(unique_id[1].show_id))] @@ nocalls
       ELSE LET lookup == [show_id  |-> unique_id[1].show_id,
                           provider |-> unique_id[1].provider]
            IN IF response = None
               THEN [ret |-> None, lookups |-> <<lookup>>, writes |-> <<>>]
               ELSE [ret |-> Some(response[1]), lookups |-> <<lookup>>,
                     writes |-> <<>>]

\* _get_tvmaze_id: the return value and the external calls it makes, given
\* the response of the lookup should it be made
_get_tvmaze_id(kodi_show_info, response) ==
    LET unique_id == _get_unique_id(kodi_show_info.uniqueid)
        nocalls == [lookups |-> <<>>, writes |-> <<>>]
    IN IF unique_id = None
       THEN [ret |-> None] @@ nocalls
       ELSE IF unique_id[1].provider = "tvmaze"
       THEN [ret |-> Some(int(unique_id[1].show_id))] @@ nocalls
       ELSE LET lookup == [show_id  |-> unique_id[1].show_id,
                           provider |-> unique_id[1].provider]
            IN IF response = None
               THEN [ret |-> None, lookups |-> <<lookup>>, writes |-> <<>>]
               ELSE [ret     |-> Some(response[1]),
                     lookups |-> <<lookup>>,
                     writes  |-> <<[tvshowid  |-> kodi_show_info.tvshowid,
                                    tvmaze_id |-> response[1]]>>]

\* the lookup is made only for a show without a 'tvmaze' ID and with another
\* supported one; otherwise no response is drawn
ResponsesFor(kodi_show_info) ==
    LET unique_id == _get_unique_id(kodi_show_info.uniqueid)
    IN IF unique_id = None \/ unique_id[1].provider = "tvmaze"
       THEN {None}
       ELSE LookupResponses

\* set_show_uniqueid: the medialibrary after the calls in ws
RECURSIVE set_show_uniqueid(_, _)
set_show_uniqueid(lib, ws) ==
    IF Len(ws) = 0 THEN lib
    ELSE set_show_uniqueid(
            [lib EXCEPT ![ws[1].tvshowid].tvmaze = Some(str(ws[1].tvmaze_id))],
            Tail(ws))

\* get_tvshow_details / an element of get_tvshows
ShowInfo(lib, tvshowid) == [tvshowid |-> tvshowid, uniqueid |-> lib[tvshowid]]

\* is_authorized
is_authorized(s) == s.username # "" /\ s.apikey # ""

\* the settings the addon can start with
Settings == [username : {"", "u1"}, apikey : {"", "k1"}]

NoSettings == [username |-> "", apikey |-> ""]

\* the parts of the state an entry point has not touched yet
Untouched ==
    /\ now = 0
    /\ pc = "idle"
    /\ lookups = <<>> /\ writes = <<>> /\ sent = <<>>
    /\ notifications = <<>> /\ fetches = <<>> /\ tokens = <<>>
    /\ kodi_episode_list = <<>> /\ episodes_for_tvmaze = <<>>
    /\ call = None /\ prev = None
    /\ tv_shows = <<>> /\ n = 0 /\ progress = 0 /\ outcome = <<>>
    /\ errors = FALSE
    /\ recent_episodes = <<>> /\ pos = 0
    /\ id_mapping = <<>> /\ episode_mapping = <<>> /\ pending = {}
    /\ resolutions = <<>>
    /\ auth = None /\ saves = <<>>
    /\ actions = <<>>

\* ------------------------------------------------- formatter on its own
\* the episode records the formatter is applied to
KodiEpisodes == [season : 0..MaxSeason, episode : {1, 2}, playcount : {0, 1, 2}]

PrepareEpisodeList ==
    /\ pc = "idle"
    /\ \E kodi_list \in SeqsUpTo(KodiEpisodes, MaxLen) :
       \E clock \in Clocks(now, Len(kodi_list)) :
          /\ kodi_episode_list' = kodi_list
          /\ episodes_for_tvmaze' = _prepare_episode_list(kodi_list, clock)
          /\ now' = ClockAfter(now, clock)
    /\ pc' = "prepared"
    /\ UNCHANGED <<library, settings, effects, resolverVars, allVars, errors,
                   recentVars, authVars, actions>>

InitFormat ==
    /\ uniqueid = [s \in Shows |-> [tvmaze |-> None, tvdb |-> None,
                                    imdb |-> None, tmdb |-> Some("55")]]
    /\ settings = NoSettings /\ settings0 = NoSettings
    /\ Untouched

NextFormat == PrepareEpisodeList

SpecFormat == InitFormat /\ [][NextFormat]_vars

\* -------------------------------------------------- resolver on its own
\* one call of _get_tvmaze_id on the record of a show as the medialibrary
\* has it now; lookups and writes are the calls made by this call
GetTvmazeId ==
    /\ pc = "idle"
    /\ \E tvshowid \in Shows :
       LET kodi_show_info == ShowInfo(uniqueid, tvshowid)
       IN \E response \in ResponsesFor(kodi_show_info) :
          LET r == _get_tvmaze_id(kodi_show_info, response)
          IN /\ lookups' = r.lookups
             /\ writes' = r.writes
             /\ uniqueid' = set_show_uniqueid(uniqueid, r.writes)
             /\ call' = Some([tvshowid |-> tvshowid,
                              before   |-> kodi_show_info.uniqueid,
                              response |-> response,
                              ret      |-> r.ret])
             /\ prev' = call
    /\ UNCHANGED <<settings, now, pc, sent, notifications, fetches, tokens,
                   formatterVars, allVars, errors, recentVars, authVars, actions>>

InitResolver ==
    /\ uniqueid \in [Shows -> UniqueIdDicts]
    /\ settings = NoSettings /\ settings0 = NoSettings
    /\ Untouched

NextResolver == GetTvmazeId

SpecResolver == InitResolver /\ [][NextResolver]_vars

\* ------------------------------------------------------------ sync drivers
\* the calls of DIALOG.notification
Notification(message) == [message |-> message]

\* the summary shown after the loops of update_all_episodes and
\* update_recent_episodes
Summary(errs) ==
    IF errs THEN Notification("Update completed with errors")
    ELSE Notification("Update completed")

\* a call of send_episodes; ok tells whether it returned or raised
\* UpdateError, batch is the list before formatting and at the iteration of
\* the caller's loop that made the call
SendEpisodes(tvmaze_id, episodes, clock, ok, at) ==
    [tvmaze_id |-> tvmaze_id,
     episodes  |-> _prepare_episode_list(episodes, clock),
     batch     |-> episodes,
     ok        |-> ok,
     at        |-> at]

\* a sender that tries once more after an UpdateError
SendWithRetry(tvmaze_id, episodes, clock, ok, at) ==
    IF ok THEN <<SendEpisodes(tvmaze_id, episodes, clock, ok, at)>>
    ELSE <<SendEpisodes(tvmaze_id, episodes, clock, ok, at),
           SendEpisodes(tvmaze_id, episodes, clock, ok, at)>>

\* _send_show_episodes_to_tvmaze: the calls of send_episodes it makes
_send_show_episodes_to_tvmaze(tvmaze_id, episodes, clock, ok, at) ==
    <<SendEpisodes(tvmaze_id, episodes, clock, ok, at)>>

\* get_tvshows: NoDataError (None) or the shows of the library
GetTvshowsResults == {None, Some([s \in Shows |-> s])}

\* get_episodes: NoDataError (None) or the episodes of the show
GetEpisodesResults(tvshowid) ==
    {None, Some([k \in 1..EpsPerShow |-> LibraryEpisode(tvshowid, k)])}

\* get_recent_episodes: NoDataError (None) or some episodes of the library
GetRecentEpisodesResults ==
    {None} \cup
    {Some([i \in 1..Len(l) |-> EpisodeById(l[i])]) :
        l \in DistinctSeqs(EpisodeIds, MaxRecent) \ {<<>>}}

\* update_all_episodes up to the loop: the guard and get_tvshows
UpdateAllStart ==
    /\ pc = "idle"
    /\ IF ~is_authorized(settings)
       THEN /\ pc' = "all_done"
            /\ UNCHANGED <<fetches, tv_shows>>
       ELSE /\ fetches' = Append(fetches, "get_tvshows")
            /\ \E result \in GetTvshowsResults :
                  IF result = None
                  THEN pc' = "all_done" /\ UNCHANGED tv_shows
                  ELSE /\ tv_shows' = [i \in 1..Len(result[1]) |->
                                          ShowInfo(uniqueid, result[1][i])]
                       /\ pc' = "all_loop"
    /\ errors' = FALSE
    /\ UNCHANGED <<library, settings, now, lookups, writes, sent, notifications,
                   tokens, formatterVars, resolverVars, n, progress, outcome,
                   recentVars, authVars, actions>>

\* one iteration of the loop of update_all_episodes, and after the last one
\* the summary notification
UpdateAllShow ==
    /\ pc = "all_loop"
    /\ n < Len(tv_shows)
    /\ LET show == tv_shows[n + 1]
           last == (n + 1 = Len(tv_shows))
       IN \E response \in ResponsesFor(show) :
          LET r == _get_tvmaze_id(show, response)
          IN /\ n' = n + 1
             /\ progress' = (100 * (n + 1)) \div Len(tv_shows)
             /\ lookups' = lookups \o r.lookups
             /\ writes' = writes \o r.writes
             /\ uniqueid' = set_show_uniqueid(uniqueid, r.writes)
             /\ pc' = IF last THEN "all_done" ELSE "all_loop"
             /\ IF r.ret = None
                THEN /\ outcome' = Append(outcome,
                            [tvshowid |-> show.tvshowid, tvmaze_id |-> None,
                             fetched |-> FALSE])
                     /\ notifications' =
                            IF last THEN Append(notifications, Summary(errors))
                            ELSE notifications
                     /\ UNCHANGED <<fetches, sent, errors, now>>
                ELSE /\ fetches' = Append(fetches, "get_episodes")
                     /\ \E episodes \in GetEpisodesResults(show.tvshowid) :
                           IF episodes = None
                           THEN /\ outcome' = Append(outcome,
                                       [tvshowid |-> show.tvshowid,
                                        tvmaze_id |-> r.ret, fetched |-> FALSE])
                                /\ notifications' =
                                       IF last
                                       THEN Append(notifications, Summary(errors))
                                       ELSE notifications
                                /\ UNCHANGED <<sent, errors, now>>
                           ELSE \E clock \in Clocks(now, Len(episodes[1])) :
                                \E ok \in BOOLEAN :
                                   /\ outcome' = Append(outcome,
                                          [tvshowid |-> show.tvshowid,
                                           tvmaze_id |-> r.ret, fetched |-> TRUE])
                                   /\ sent' = sent \o
                                          _send_show_episodes_to_tvmaze(
                                              r.ret[1], episodes[1], clock, ok, n + 1)
                                   /\ now' = ClockAfter(now, clock)
                                   /\ errors' = (errors \/ ~ok)
                                   /\ notifications' =
                                          IF last
                                          THEN Append(notifications,
                                                      Summary(errors \/ ~ok))
                                          ELSE notifications
    /\ UNCHANGED <<settings, tokens, formatterVars, resolverVars, tv_shows,
                   recentVars, authVars, actions>>

\* update_single_episode
UpdateSingleEpisode ==
    /\ pc = "idle"
    /\ pc' = "single_done"
    /\ \E episode_id \in EpisodeIds :
       IF ~is_authorized(settings)
       THEN UNCHANGED <<library, now, lookups, writes, sent, notifications, fetches>>
       ELSE LET episode_info == EpisodeById(episode_id)
                tvshow_info == ShowInfo(uniqueid, episode_info.tvshowid)
            IN \E response \in ResponsesFor(tvshow_info) :
               LET r == _get_tvmaze_id(tvshow_info, response)
               IN /\ fetches' = fetches \o <<"get_episode_details", "get_tvshow_details">>
                  /\ lookups' = lookups \o r.lookups
                  /\ writes' = writes \o r.writes
                  /\ uniqueid' = set_show_uniqueid(uniqueid, r.writes)
                  /\ IF r.ret = None
                     THEN UNCHANGED <<now, sent, notifications>>
                     ELSE \E clock \in Clocks(now, 1) : \E ok \in BOOLEAN :
                          /\ sent' = Append(sent,
                                SendEpisodes(r.ret[1], <<episode_info>>, clock, ok, 0))
                          /\ now' = ClockAfter(now, clock)
                          /\ notifications' = Append(notifications,
                                IF ok THEN Notification("Episode status updated")
                                ELSE Notification("Failed to update episode status"))
    /\ UNCHANGED <<settings, tokens, formatterVars, resolverVars, allVars, errors,
                   recentVars, authVars, actions>>

\* update_recent_episodes up to the first loop: the guard and
\* get_recent_episodes
UpdateRecentStart ==
    /\ pc = "idle"
    /\ IF ~is_authorized(settings)
       THEN /\ pc' = "recent_done"
            /\ UNCHANGED <<fetches, recent_episodes>>
       ELSE /\ fetches' = Append(fetches, "get_recent_episodes")
            /\ \E result \in GetRecentEpisodesResults :
                  IF result = None
                  THEN pc' = "recent_done" /\ UNCHANGED recent_episodes
                  ELSE recent_episodes' = result[1] /\ pc' = "recent_group"
    /\ errors' = FALSE
    /\ UNCHANGED <<library, settings, now, lookups, writes, sent, notifications,
                   tokens, formatterVars, resolverVars, allVars, pos, id_mapping,
                   episode_mapping, pending, resolutions, authVars, actions>>

\* episode_mapping[tvmaze_id].append(episode) on a defaultdict(list)
AppendTo(mapping, tvmaze_id, episode) ==
    IF tvmaze_id \in DOMAIN mapping
    THEN [mapping EXCEPT ![tvmaze_id] = Append(@, episode)]
    ELSE (tvmaze_id :> <<episode>>) @@ mapping

\* one iteration of the first loop of update_recent_episodes; after the last
\* one the second loop starts, or if there is nothing to send the summary
\* notification is shown
UpdateRecentEpisode ==
    /\ pc = "recent_group"
    /\ pos < Len(recent_episodes)
    /\ pos' = pos + 1
    /\ LET episode == recent_episodes[pos + 1]
           last == (pos + 1 = Len(recent_episodes))
           Finish(mapping) ==
               IF ~last
               THEN pc' = "recent_group" /\ UNCHANGED <<pending, notifications>>
               ELSE IF DOMAIN mapping = {}
               THEN /\ pc' = "recent_done"
                    /\ notifications' = Append(notifications, Summary(errors))
                    /\ UNCHANGED pending
               ELSE /\ pc' = "recent_send"
                    /\ pending' = DOMAIN mapping
                    /\ UNCHANGED notifications
       IN IF episode.tvshowid \notin DOMAIN id_mapping
          THEN LET show_info == ShowInfo(uniqueid, episode.tvshowid)
               IN \E response \in ResponsesFor(show_info) :
                  LET r == _get_tvmaze_id(show_info, response)
                  IN /\ fetches' = Append(fetches, "get_tvshow_details")
                     /\ lookups' = lookups \o r.lookups
                     /\ writes' = writes \o r.writes
                     /\ uniqueid' = set_show_uniqueid(uniqueid, r.writes)
                     /\ resolutions' = Append(resolutions,
                            [tvshowid |-> episode.tvshowid, ret |-> r.ret])
                     /\ IF r.ret = None
                        THEN /\ UNCHANGED <<id_mapping, episode_mapping>>
                             /\ Finish(episode_mapping)
                        ELSE /\ id_mapping' =
                                    (episode.tvshowid :> r.ret[1]) @@ id_mapping
                             /\ episode_mapping' =
                                    AppendTo(episode_mapping, r.ret[1], episode)
                             /\ Finish(episode_mapping')
          ELSE /\ episode_mapping' =
                      AppendTo(episode_mapping, id_mapping[episode.tvshowid], episode)
               /\ Finish(episode_mapping')
               /\ UNCHANGED <<library, fetches, lookups, writes, resolutions,
                              id_mapping>>
    /\ UNCHANGED <<settings, now, sent, tokens, formatterVars, resolverVars,
                   allVars, errors, recent_episodes, authVars, actions>>

\* one iteration of the second loop of update_recent_episodes, over the items
\* of episode_mapping in the order the dict yields them, and after the last
\* one the summary notification
UpdateRecentSend ==
    /\ pc = "recent_send"
    /\ \E tvmaze_id \in pending :
       \E clock \in Clocks(now, Len(episode_mapping[tvmaze_id])) :
       \E ok \in BOOLEAN :
          /\ sent' = sent \o
                 _send_show_episodes_to_tvmaze(
                     tvmaze_id, episode_mapping[tvmaze_id], clock, ok, 0)
          /\ now' = ClockAfter(now, clock)
          /\ errors' = (errors \/ ~ok)
          /\ pending' = pending \ {tvmaze_id}
          /\ IF pending = {tvmaze_id}
             THEN /\ pc' = "recent_done"
                  /\ notifications' = Append(notifications, Summary(errors \/ ~ok))
             ELSE UNCHANGED <<pc, notifications>>
    /\ UNCHANGED <<library, settings, lookups, writes, fetches, tokens,
                   formatterVars, resolverVars, allVars, recent_episodes, pos,
                   id_mapping, episode_mapping, resolutions, authVars, actions>>

\* a menu that offers the sync actions whatever the authorization
GetMenuActionsAlways ==
    /\ pc = "idle"
    /\ pc' = "menu_done"
    /\ actions' = <<"Update all shows", "Update recent episodes",
                    "Authorize the addon">>
    /\ UNCHANGED <<library, settings, now, effects, formatterVars, resolverVars,
                   allVars, errors, recentVars, authVars>>

\* get_menu_actions: the labels of the actions
GetMenuActions ==
    /\ pc = "idle"
    /\ pc' = "menu_done"
    /\ actions' = IF is_authorized(settings)
                  THEN <<"Update all shows", "Update recent episodes",
                         "Authorize the addon">>
                  ELSE <<"Authorize the addon">>
    /\ UNCHANGED <<library, settings, now, effects, formatterVars, resolverVars,
                   allVars, errors, recentVars, authVars>>

InitSync ==
    /\ uniqueid \in [Shows -> UniqueIdDicts]
    /\ settings \in Settings /\ settings0 = settings
    /\ Untouched

NextAll == UpdateAllStart \/ UpdateAllShow

SpecAll == InitSync /\ [][NextAll]_vars

NextRecent == UpdateRecentStart \/ UpdateRecentEpisode \/ UpdateRecentSend

SpecRecent == InitSync /\ [][NextRecent]_vars

Next ==
    \/ UpdateAllStart \/ UpdateAllShow
    \/ UpdateSingleEpisode
    \/ UpdateRecentStart \/ UpdateRecentEpisode \/ UpdateRecentSend
    \/ GetMenuActions

\* a library with a show of each kind in turn: one to look up by its tvdb
\* ID, one with its tvmaze ID, one without a supported ID
Init ==
    /\ uniqueid = [s \in Shows |->
          [tvmaze |-> IF s % 3 = 2 THEN Some(<<7>>) ELSE None,
           tvdb   |-> IF s % 3 = 1 THEN Some("321") ELSE None,
           imdb   |-> IF s % 3 = 1 THEN Some("tt999") ELSE None,
           tmdb   |-> Some("55")]]
    /\ settings \in Settings /\ settings0 = settings
    /\ Untouched

Spec == Init /\ [][Next]_vars

\* ------------------------------------------------------ authorization flow
\* The characters of a typed text, one of each class the pattern tells
\* apart: a word character, the dot, the plus, the hyphen, the at sign and a
\* character the pattern admits nowhere.
Chars == {"a", ".", "+", "-", "@", " "}

Emails == SeqsUpTo(Chars, MaxEmailLen)

\* re.search(r'^[\w.\-+]+@[\w.-]+\.[\w]+$', email) is not None
EmailMatches(email) ==
    \E i, j \in 1..Len(email) :
        /\ 1 < i /\ i + 1 < j /\ j < Len(email)
        /\ \A k \in 1..(i - 1) : email[k] \in {"a", ".", "-", "+"}
        /\ email[i] = "@"
        /\ \A k \in (i + 1)..(j - 1) : email[k] \in {"a", ".", "-"}
        /\ email[j] = "."
        /\ \A k \in (j + 1)..Len(email) : email[k] = "a"

\* what start_authorization can do: raise AuthorizationError (None) or return
\* a token and a confirmation URL
StartAuthorizationResults == {None, Some([token |-> "token", confirm_url |-> "url"])}

\* how the confirmation dialog can end: confirmed with the credentials,
\* with an error message, or dismissed
ConfirmationDialogs ==
    [is_confirmed : {TRUE}, username : {"u1", "u2"}, apikey : {"k2"},
     error_message : {None}]
    \cup
    [is_confirmed : {FALSE}, username : {""}, apikey : {""},
     error_message : {None, Some("error")}]

\* a flow that stores what the dialog holds however the dialog ended
AfterConfirmationAlwaysSaves(confirmation_dialog, old) ==
    [settings      |-> [username |-> confirmation_dialog.username,
                        apikey   |-> confirmation_dialog.apikey],
     saves         |-> <<[id |-> "username", value |-> confirmation_dialog.username],
                         [id |-> "apikey", value |-> confirmation_dialog.apikey]>>,
     notifications |-> <<Notification("Addon has been authorized successfully")>>]

\* authorize_addon after confirmation_dialog.doModal(): the settings, the
\* calls of ADDON.setSettingString and the notification
AfterConfirmation(confirmation_dialog, old) ==
    IF confirmation_dialog.is_confirmed
    THEN [settings      |-> [username |-> confirmation_dialog.username,
                             apikey   |-> confirmation_dialog.apikey],
          saves         |-> <<[id |-> "username",
                               value |-> confirmation_dialog.username],
                              [id |-> "apikey",
                               value |-> confirmation_dialog.apikey]>>,
          notifications |-> <<Notification("Addon has been authorized successfully")>>]
    ELSE IF confirmation_dialog.error_message # None
    THEN [settings |-> old, saves |-> <<>>,
          notifications |-> <<Notification("Confirmation error")>>]
    ELSE [settings |-> old, saves |-> <<>>, notifications |-> <<>>]

\* what the user and TVmaze did during a run of authorize_addon; a part the
\* run did not come to is None
Run(answer, isConfirmed, email, response, dialog) ==
    Some([answer |-> answer, isConfirmed |-> isConfirmed, email |-> email,
          response |-> response, dialog |-> dialog])

\* authorize_addon
AuthorizeAddon ==
    /\ pc = "idle"
    /\ pc' = "auth_done"
    /\ \E answer \in IF is_authorized(settings) THEN BOOLEAN ELSE {TRUE} :
       IF ~answer
       THEN /\ auth' = Run(Some(FALSE), None, None, None, None)
            /\ UNCHANGED <<settings, saves, tokens, notifications>>
       ELSE
       LET asked == IF is_authorized(settings) THEN Some(TRUE) ELSE None
       IN \E isConfirmed \in BOOLEAN :
       IF ~isConfirmed
       THEN /\ auth' = Run(asked, Some(FALSE), None, None, None)
            /\ UNCHANGED <<settings, saves, tokens, notifications>>
       ELSE
       \E email \in Emails :
       IF ~EmailMatches(email)
       THEN /\ auth' = Run(asked, Some(TRUE), Some(email), None, None)
            /\ notifications' = Append(notifications, Notification("Invalid email"))
            /\ UNCHANGED <<settings, saves, tokens>>
       ELSE
       \E response \in StartAuthorizationResults :
       /\ tokens' = Append(tokens, email)
       /\ IF response = None
          THEN /\ auth' = Run(asked, Some(TRUE), Some(email), Some(response), None)
               /\ notifications' =
                      Append(notifications, Notification("Authorization error"))
               /\ UNCHANGED <<settings, saves>>
          ELSE \E confirmation_dialog \in ConfirmationDialogs :
               LET after == AfterConfirmation(confirmation_dialog, settings)
               IN /\ auth' = Run(asked, Some(TRUE), Some(email), Some(response),
                                 Some(confirmation_dialog))
                  /\ settings' = after.settings
                  /\ saves' = saves \o after.saves
                  /\ notifications' = notifications \o after.notifications
    /\ UNCHANGED <<library, now, lookups, writes, sent, fetches, formatterVars,
                   resolverVars, allVars, errors, recentVars, settings0, actions>>

InitAuth ==
    /\ uniqueid = [s \in Shows |-> [tvmaze |-> None, tvdb |-> None,
                                    imdb |-> None, tmdb |-> Some("55")]]
    /\ settings \in Settings /\ settings0 = settings
    /\ Untouched

NextAuth == AuthorizeAddon

SpecAuth == InitAuth /\ [][NextAuth]_vars

\* -------------------------------------------------------------- properties
IsRegular(episode) == episode.season # 0

\* C8: the formatter returns exactly the input episodes whose season is
\* non-zero, each once and in input order, with the input's season and
\* episode numbers, type WATCHED for a non-zero play count and ACQUIRED for
\* a zero one; no output record has season 0 or type SKIPPED.
C8_FormatterKeepsRegularEpisodes ==
    pc = "prepared" =>
        LET kept == SelectSeq(kodi_episode_list, IsRegular)
            out == episodes_for_tvmaze
        IN /\ Len(out) = Len(kept)
           /\ \A i \in 1..Len(out) :
                /\ out[i].season = kept[i].season
                /\ out[i].episode = kept[i].episode
                /\ kept[i].playcount # 0 => out[i].type = StatusType.WATCHED
                /\ kept[i].playcount = 0 => out[i].type = StatusType.ACQUIRED
                /\ out[i].season # 0
                /\ out[i].type # StatusType.SKIPPED

\* a special between an unwatched and a watched regular episode
C8_Witness ==
    /\ pc = "prepared"
    /\ Len(kodi_episode_list) = 3
    /\ kodi_episode_list[1].season # 0 /\ kodi_episode_list[1].playcount = 0
    /\ kodi_episode_list[2].season = 0
    /\ kodi_episode_list[3].season # 0 /\ kodi_episode_list[3].playcount > 1
    /\ Len(episodes_for_tvmaze) = 2

NoSupportedId(d) == d.tvmaze = None /\ d.tvdb = None /\ d.imdb = None

\* C5: the resolver makes no lookup and no write to the show record when
\* (1) the show has a 'tvmaze' identifier (also next to tvdb/imdb ones), and
\* then returns that identifier; (2) the show has no identifier under tvmaze,
\* tvdb or imdb, and then returns unresolved.
C5_NoCallsForNativeOrMissingId ==
    call # None =>
        LET c == call[1]
        IN /\ c.before.tvmaze # None =>
                /\ lookups = <<>> /\ writes = <<>>
                /\ uniqueid[c.tvshowid] = c.before
                /\ c.ret = Some(int(c.before.tvmaze[1]))
           /\ NoSupportedId(c.before) =>
                /\ lookups = <<>> /\ writes = <<>>
                /\ uniqueid[c.tvshowid] = c.before
                /\ c.ret = None

\* a show without identifiers was resolved, then one with all three
C5_Witness ==
    /\ call # None /\ prev # None
    /\ NoSupportedId(prev[1].before) /\ prev[1].ret = None
    /\ call[1].before.tvmaze # None
    /\ call[1].before.tvdb # None /\ call[1].before.imdb # None
    /\ call[1].ret = Some(7)

TvdbAndImdbOnly(d) == d.tvmaze = None /\ d.tvdb # None /\ d.imdb # None

\* C6: for a show with tvdb and imdb identifiers and no tvmaze one the
\* resolver makes exactly one lookup, with the tvdb identifier and provider
\* 'thetvdb'; it resolves only if that lookup succeeds, and a failed lookup
\* yields unresolved without a lookup of the imdb identifier.
C6_TvdbLookedUpAsThetvdb ==
    (call # None /\ TvdbAndImdbOnly(call[1].before)) =>
        LET c == call[1]
        IN /\ lookups = <<[show_id |-> c.before.tvdb[1], provider |-> "thetvdb"]>>
           /\ c.ret # None => c.response # None
           /\ c.response = None => c.ret = None
           /\ c.response # None => c.ret = Some(c.response[1])

\* the thetvdb lookup of such a show failed
C6_Witness ==
    /\ call # None /\ TvdbAndImdbOnly(call[1].before)
    /\ call[1].response = None
    /\ Len(lookups) = 1

\* the latest call made a lookup and it succeeded
LookupSucceeded == Len(lookups) > 0 /\ call[1].response # None

\* the parts of C7 about one call: a write is made exactly when a lookup
\* succeeded, and it is set_show_uniqueid(tvshowid, looked-up ID); a failed
\* lookup leaves the record unchanged and yields unresolved
WriteThrough ==
    call # None =>
        LET c == call[1]
        IN /\ writes # <<>> <=> LookupSucceeded
           /\ LookupSucceeded =>
                /\ writes = <<[tvshowid |-> c.tvshowid, tvmaze_id |-> c.response[1]]>>
                /\ uniqueid[c.tvshowid].tvmaze = Some(str(c.response[1]))
           /\ (Len(lookups) > 0 /\ c.response = None) =>
                /\ uniqueid[c.tvshowid] = c.before
                /\ c.ret = None

SameShowTwice == call # None /\ prev # None /\ call[1].tvshowid = prev[1].tvshowid

\* the latest call returned what the call before it returned and left the
\* stored value as that call had left it
SameResult ==
    /\ call[1].ret = prev[1].ret
    /\ uniqueid[call[1].tvshowid] = call[1].before

\* C7 as stated: write-through exactly on a successful lookup, and resolving
\* the same show twice in a row returns the same remote ID and leaves the
\* same stored value.
C7_Original == WriteThrough /\ (SameShowTwice => SameResult)

\* C7 (amended): write-through exactly on a successful lookup, and once a
\* resolution of a show has returned a remote ID, resolving the same show
\* again returns the same remote ID and leaves the same stored value.
C7_WriteThroughIdempotent ==
    WriteThrough /\ ((SameShowTwice /\ prev[1].ret # None) => SameResult)

\* a show was resolved by a lookup and then resolved again
C7_Witness ==
    /\ SameShowTwice
    /\ prev[1].before.tvmaze = None /\ prev[1].response = Some(12)
    /\ call[1].before.tvmaze = Some(<<1, 2>>)
    /\ call[1].ret = Some(12)

Failed == Notification("Update completed with errors")

\* the calls of send_episodes made by iteration i of update_all_episodes
SentAt(i) == {j \in 1..Len(sent) : sent[j].at = i}

\* C1 as stated: in a full sync over a non-empty show list, if at least one
\* show fails remote-ID resolution, the summary notification is 'Update
\* completed with errors', even when every submission succeeded.
C1_Original ==
    (/\ pc = "all_done"
     /\ Len(tv_shows) > 0
     /\ \E i \in 1..Len(outcome) : outcome[i].tvmaze_id = None)
    => notifications = <<Failed>>

\* C2: in the full sync a show whose ID resolves and whose episodes are
\* fetched gets exactly one send_episodes call, with its resolved ID, whatever
\* happened to the shows before it; a show whose resolution fails gets none;
\* and the loop reaches the last show.
C2_FailureScopedToShow ==
    /\ Len(outcome) = n
    /\ \A i \in 1..Len(outcome) :
          LET o == outcome[i]
          IN /\ o.tvshowid = tv_shows[i].tvshowid
             /\ (o.tvmaze_id # None /\ o.fetched) =>
                   /\ Cardinality(SentAt(i)) = 1
                   /\ \A j \in SentAt(i) : sent[j].tvmaze_id = o.tvmaze_id[1]
             /\ (o.tvmaze_id = None \/ ~o.fetched) => SentAt(i) = {}
    /\ \A j \in 1..Len(sent) : sent[j].at \in 1..Len(outcome)
    /\ pc = "all_loop" => n < Len(tv_shows)
    /\ (pc = "all_done" /\ Len(tv_shows) > 0) => Len(outcome) = Len(tv_shows)

\* the first show's submission raised UpdateError and the second show, which
\* resolved, was submitted once all the same
C2_Witness ==
    /\ pc = "all_done"
    /\ Len(outcome) >= 2
    /\ Len(sent) >= 2
    /\ ~sent[1].ok /\ sent[1].at = 1
    /\ sent[2].ok /\ sent[2].at = 2
    /\ Len(lookups) > 0

\* the calls of the resolver for a show during the recent-episodes sync
ResolutionsOf(tvshowid) ==
    {i \in 1..Len(resolutions) : resolutions[i].tvshowid = tvshowid}

\* C3 as stated: during one recent-episodes sync at most one resolution is
\* performed for every distinct local show id, whatever its outcome.
C3_Original == \A tvshowid \in Shows : Cardinality(ResolutionsOf(tvshowid)) <= 1

\* the episodeids of the recent episodes of the shows mapped to tvmaze_id
RecentOf(tvmaze_id) ==
    {recent_episodes[i].episodeid : i \in
        {k \in 1..Len(recent_episodes) :
            /\ recent_episodes[k].tvshowid \in DOMAIN id_mapping
            /\ id_mapping[recent_episodes[k].tvshowid] = tvmaze_id}}

Carried(j) == {sent[j].batch[k].episodeid : k \in 1..Len(sent[j].batch)}

\* C4 as stated: in the recent-episodes sync, for every order of the input,
\* exactly one submission is made per distinct resolved remote ID, it carries
\* all recent episodes of every local show resolved to that ID, and episodes
\* of shows that failed resolution appear in no submission.
C4_Original ==
    pc = "recent_done" =>
        /\ \A s \in DOMAIN id_mapping :
              /\ Cardinality({j \in 1..Len(sent) :
                                 sent[j].tvmaze_id = id_mapping[s]}) = 1
              /\ \A j \in 1..Len(sent) :
                    sent[j].tvmaze_id = id_mapping[s]
                        => Carried(j) = RecentOf(id_mapping[s])
        /\ \A j \in 1..Len(sent) :
              \E s \in DOMAIN id_mapping : id_mapping[s] = sent[j].tvmaze_id
        /\ \A i \in 1..Len(resolutions) :
              resolutions[i].ret = None =>
                 \A j \in 1..Len(sent) : \A k \in 1..Len(sent[j].batch) :
                    sent[j].batch[k].tvshowid # resolutions[i].tvshowid

\* C10: when the addon is not authorized each sync driver fetches nothing
\* from the library, makes no lookup, writes no show record, submits nothing
\* and shows no notification, and the menu offers only the authorize action.
C10_UnauthorizedIsNoOp ==
    ~is_authorized(settings) =>
        /\ pc \in {"idle", "all_done", "single_done", "recent_done", "menu_done"}
        /\ fetches = <<>> /\ lookups = <<>> /\ writes = <<>>
        /\ sent = <<>> /\ notifications = <<>>
        /\ pc = "menu_done" => actions = <<"Authorize the addon">>

\* a sync driver returned with a username stored and no API key
C10_Witness ==
    /\ pc \in {"all_done", "single_done", "recent_done"}
    /\ settings.username = "u1" /\ settings.apikey = ""
    /\ sent = <<>>

\* the cases of a run of authorize_addon
Declined == auth[1].answer = Some(FALSE)
Cancelled == auth[1].isConfirmed = Some(FALSE)
Malformed == auth[1].email # None /\ ~EmailMatches(auth[1].email[1])
Refused == auth[1].response = Some(None)
EndedConfirmed == auth[1].dialog # None /\ auth[1].dialog[1].is_confirmed
ConfirmationError ==
    /\ auth[1].dialog # None /\ ~auth[1].dialog[1].is_confirmed
    /\ auth[1].dialog[1].error_message # None
Dismissed ==
    /\ auth[1].dialog # None /\ ~auth[1].dialog[1].is_confirmed
    /\ auth[1].dialog[1].error_message = None

\* C9: authorize_addon writes the stored username and API key only in a run
\* whose confirmation dialog ends confirmed; in every other run both keep
\* their previous values; and when re-authorization is declined or the email
\* is malformed no token request is issued.
C9_CredentialsOnlyOnConfirmation ==
    pc = "auth_done" =>
        /\ saves # <<>> => EndedConfirmed
        /\ settings # settings0 => EndedConfirmed
        /\ (Declined \/ Cancelled \/ Malformed \/ Refused
                \/ ConfirmationError \/ Dismissed)
               => (settings = settings0 /\ saves = <<>>)
        /\ (Declined \/ Malformed) => tokens = <<>>

\* a re-authorization went up to the confirmation dialog, which ended with
\* an error, and the credentials are the previous ones
C9_Witness ==
    /\ pc = "auth_done"
    /\ is_authorized(settings0)
    /\ auth[1].answer = Some(TRUE)
    /\ auth[1].dialog # None /\ auth[1].dialog[1].error_message # None
    /\ Len(tokens) = 1
    /\ settings = settings0

====
